---- MODULE Spec2Model ----
(***************************************************************************)
(* Watercolour catalogue: the schema-backed store (DatabaseManager), the   *)
(* ingestion pipeline (ingest_raw_images) and the metadata backups of      *)
(* PaintingManager as a state machine.                                     *)
(*                                                                         *)
(* Spec       the program as written: the store API called on a manager    *)
(*            built with DatabaseManager(...), and ingest_raw_images,      *)
(*            whose `with DatabaseManager(...) as db:` raises because the  *)
(*            class defines neither __enter__ nor __exit__.                *)
(* SpecScoped the same store and the body of the with-block (_process_path *)
(*            and _process_file), entered with the store acquired as the   *)
(*            scoped resource that spec section 4.1 (Close) describes.     *)
(* SpecOpen   DatabaseManager(db_path, schema_path) on database files that *)
(*            hold any part of the schema, and the store API after it.     *)
(* SpecEdit   insert_image, update_image, update_painting and the admin    *)
(*            edit form on a store whose schema is in place.               *)
(* SpecEditScoped  the admin edit form with its with-block entered.        *)
(* SpecLinks  paintings and painting_images on the same store.             *)
(* SpecRatings  paintings and ratings on the same store.                   *)
(* SpecCore   every writing method of the store API on one store.          *)
(* SpecWriters  two managers on one file whose insert_image calls          *)
(*            interleave.                                                  *)
(* SpecCommit the inserting methods with the commit as a step that can     *)
(*            fail, on a connection that is kept open.                     *)
(* SpecBackups  PaintingManager's metadata file and rolling backups, with  *)
(*            the local clock as an input.                                 *)
(***************************************************************************)
EXTENDS Integers, Sequences, FiniteSets, Bags, TLC

VARIABLES
    images,       \* the images table: a sequence of rows, image_id = position
    conn,         \* the caller-held DatabaseManager's self.conn: "open" | "none"
    ret,          \* outcome of the latest store API call
    thumbs,       \* image ids N for which thumbnails/<N>.png exists
    pc,           \* ingest_raw_images: "idle" | "body" (in the with-block) | "done"
    paths,        \* ingest argument `paths`
    ext_arg,      \* ingest argument `extensions` as passed: None or {list}
    extensions,   \* the allow-list after lines 70-77
    pi,           \* index in `paths` of the path _process_path handles next
    walking,      \* TRUE while the os.walk loop of the current path is running
    walk,         \* files os.walk has still to yield for the current path
    stats,        \* the stats dict
    visited,      \* bag of the file paths handed to _process_file in this run
    md5_0,        \* fingerprints in the store when the run began
    outcome,      \* how the latest run ended: "none" | "returned" | exception name
    ingest_conn,  \* self.conn of the manager ingest_raw_images built
    db,           \* the caller's DatabaseManager object: "none" | "live"
    schema_path,  \* schema_path given to the latest DatabaseManager(...) call
    tables,       \* names of the tables in the database file
    paintings,    \* the paintings table: a sequence of rows, painting_id = position
    painting_images,  \* the painting_images table: a sequence of rows
    ratings,      \* the ratings table: a sequence of rows, rating_id = position
    kwargs,       \* **kwargs of the latest store API call, <<>> when it took none
    args,         \* ids and score of the latest link_painting_to_image / insert_rating
                  \* call, <<>> after any other store API call
    writers,      \* two further managers on the same file, each in an insert_image
                  \* call: where the call stands and how it ended
    pm            \* the PaintingManager: its DataFrame, metadata.csv, backup_dir

storeVars == <<images, conn, ret>>
runVars == <<pc, paths, ext_arg, extensions, pi, walking, walk, stats, visited,
             md5_0, outcome>>
catalogVars == <<db, schema_path, tables, paintings, painting_images, ratings, kwargs,
                 args, writers, pm>>
tableVars == <<db, schema_path, tables, paintings, painting_images, ratings, writers,
               pm>>
vars == <<images, conn, ret, thumbs, pc, paths, ext_arg, extensions, pi, walking,
          walk, stats, visited, md5_0, outcome, ingest_conn, db, schema_path, tables,
          paintings, painting_images, ratings, kwargs, args, writers, pm>>

(***************************************************************************)
(* Bounds of the model.                                                    *)
(***************************************************************************)
MaxPaths == 2          \* longest `paths` list given to ingest_raw_images

\* Optional[...] values: {} stands for None, {v} for the value v.
None == {}

(***************************************************************************)
(* Strings: str.lower() and os.path.splitext, character by character.      *)
(***************************************************************************)
UpperAlphabet == "ABCDEFGHIJKLMNOPQRSTUVWXYZ"
LowerAlphabet == "abcdefghijklmnopqrstuvwxyz"
HexDigits == "0123456789abcdefABCDEF"

CharAt(s, i) == SubSeq(s, i, i)

Chars(s) == {CharAt(s, i) : i \in 1..Len(s)}

\* upper-case letter -> lower-case letter
LowerOf ==
    [c \in Chars(UpperAlphabet) |->
        CharAt(LowerAlphabet,
               CHOOSE i \in 1..Len(UpperAlphabet) : CharAt(UpperAlphabet, i) = c)]

lower_char(c) == IF c \in DOMAIN LowerOf THEN LowerOf[c] ELSE c

RECURSIVE lower(_)
lower(s) ==
    IF Len(s) = 0 THEN ""
    ELSE lower_char(CharAt(s, 1)) \o lower(SubSeq(s, 2, Len(s)))

\* os.path.splitext(p)[1] on the last component of p: the text from the last
\* dot on, or "" when there is no dot or only leading dots precede it.
splitext(name) ==
    LET dots == {i \in 1..Len(name) : CharAt(name, i) = "."}
        d == IF dots = {} THEN 0 ELSE CHOOSE i \in dots : \A j \in dots : j <= i
    IN  IF d = 0 \/ \A j \in 1..(d - 1) : CharAt(name, j) = "."
        THEN ""
        ELSE SubSeq(name, d, Len(name))

(***************************************************************************)
(* The file system the runs see.  A path is a sequence of components.      *)
(***************************************************************************)
Cwd == <<"/repo">>

Files ==
    { [path |-> <<"/repo", "d1", "a.NEF">>, content |-> "1"],
      [path |-> <<"/repo", "d1", "b.nef">>, content |-> "2"],
      [path |-> <<"/repo", "d1", "c.jpg">>, content |-> "3"],
      [path |-> <<"/repo", "d2", "e.nef">>, content |-> "1"] }

Dirs == { <<"/repo">>, <<"/repo", "d1">>, <<"/repo", "d2">> }

\* os.path.abspath: joins the working directory and drops "." components.
abspath(p) ==
    IF Len(p) > 0 /\ p[1] = Cwd[1] THEN SelectSeq(p, LAMBDA c : c # ".")
    ELSE Cwd \o SelectSeq(p, LAMBDA c : c # ".")

basename(p) == p[Len(p)]

isfile(p) == \E f \in Files : f.path = abspath(p)

isdir(p) == abspath(p) \in Dirs

IsPrefix(a, b) == Len(a) <= Len(b) /\ SubSeq(b, 1, Len(a)) = a

\* os.walk(path) with os.path.join(root, f): every file beneath path, named
\* through path.
os_walk(p) ==
    { p \o SubSeq(f.path, Len(abspath(p)) + 1, Len(f.path)) :
        f \in {g \in Files : IsPrefix(abspath(p), g.path)} }

ReadBytes(p) == (CHOOSE f \in Files : f.path = abspath(p)).content

\* hashlib.md5(...).hexdigest() of the contents used here
hexdigest(bytes) ==
    CASE bytes = "1" -> "c4ca4238a0b923820dcc509a6f75849b"
      [] bytes = "2" -> "c81e728d9d4c2f636f067f89cc14862c"
      [] bytes = "3" -> "eccbc87e4b5ce2fe28308fd9f2a7baf3"
      [] bytes = "4" -> "a87ff679a2f3e71d9181a67b7542122c"

compute_md5(p) == hexdigest(ReadBytes(p))

(***************************************************************************)
(* Capture time: extract_exif_date, lines 30-46.                           *)
(***************************************************************************)
\* str.split(): the maximal runs of characters that are not white space
RECURSIVE split(_)
split(s) ==
    IF Len(s) = 0 THEN <<>>
    ELSE IF CharAt(s, 1) = " " THEN split(SubSeq(s, 2, Len(s)))
    ELSE LET spaces == {i \in 1..Len(s) : CharAt(s, i) = " "}
             e == IF spaces = {} THEN Len(s) + 1
                  ELSE CHOOSE i \in spaces : \A j \in spaces : i <= j
         IN  <<SubSeq(s, 1, e - 1)>> \o split(SubSeq(s, e + 1, Len(s)))

\* str.replace(":", "-")
RECURSIVE replace_colons(_)
replace_colons(s) ==
    IF Len(s) = 0 THEN ""
    ELSE (IF CharAt(s, 1) = ":" THEN "-" ELSE CharAt(s, 1))
         \o replace_colons(SubSeq(s, 2, Len(s)))

\* What exifread finds in a file, by the file's bytes: "tag" with the text of
\* EXIF DateTimeOriginal, "no_tag", or "unreadable" when reading raises.
TagOf(bytes) ==
    CASE bytes = "1" -> [kind |-> "tag", value |-> "2023:01:02 10:11:12"]
      [] bytes = "2" -> [kind |-> "tag", value |-> "not known"]
      [] bytes = "3" -> [kind |-> "no_tag", value |-> ""]
      [] bytes = "4" -> [kind |-> "unreadable", value |-> ""]

\* tag states extract_exif_date can meet
TagStates ==
    { TagOf("1"), TagOf("2"), TagOf("3"), TagOf("4"),
      [kind |-> "tag", value |-> "2023:01:02"],            \* no time part
      [kind |-> "tag", value |-> "2023:01:02 10:11:12 Z"], \* three parts
      [kind |-> "tag", value |-> ""],
      [kind |-> "tag", value |-> "0000:00:00 00:00:00"] }

\* lines 36-43, the try body: the exception it ends with, or its return value
exif_try(tag) ==
    IF tag.kind = "unreadable" THEN [exc |-> "OSError", value |-> None]
    ELSE IF tag.kind = "no_tag" THEN [exc |-> "none", value |-> None]
    ELSE LET parts == split(tag.value)
         IN  IF Len(parts) # 2
             THEN \* date_part, time_part = value.split() cannot unpack
                  [exc |-> "ValueError", value |-> None]
             ELSE [exc |-> "none",
                   value |-> {replace_colons(parts[1]) \o "T" \o parts[2]}]

\* lines 35-46: `except Exception` swallows whatever the body raises
exif_date_of(tag) == IF exif_try(tag).exc # "none" THEN None ELSE exif_try(tag).value

\* extract_exif_date of the tag states, worked out once
ExifDate == [t \in TagStates |-> exif_date_of(t)]

extract_exif_date(p) == ExifDate[TagOf(ReadBytes(p))]

(***************************************************************************)
(* The store.  db_schema.sql is not among the sources: its constraints are *)
(* taken from the persisted schema of spec section 6.                      *)
(***************************************************************************)
Md5Len == 32

HexChars == Chars(HexDigits)

\* the CHECK on md5_checksum: 32 hexadecimal characters
md5_form(md5) ==
    Len(md5) = Md5Len /\ \A i \in 1..Len(md5) : CharAt(md5, i) \in HexChars

\* fingerprints the callers of the store API pass
ApiMd5s ==
    { hexdigest("1"), hexdigest("2"),
      "ZZZZZZZZZZZZZZ",                     \* tests/test_db.py line 85
      "c4ca4238a0b923820dcc509a6f75849",    \* 31 hexadecimal characters
      "g4ca4238a0b923820dcc509a6f75849b" }  \* 32 characters, one not hexadecimal

\* md5_form of the fingerprints the model meets, worked out once
DigestForm == [m \in {hexdigest(f.content) : f \in Files} \cup ApiMd5s |-> md5_form(m)]

md5_check(md5) == IF md5 \in DOMAIN DigestForm THEN DigestForm[md5] ELSE md5_form(md5)

md5_unique(imgs, md5) == \A i \in 1..Len(imgs) : imgs[i].md5_checksum # md5

\* a mutant of foreign_keys: the PRAGMA is not issued
foreign_keys_off == FALSE

\* line 45: PRAGMA foreign_keys = ON on every connection the manager opens
foreign_keys == TRUE

\* FOREIGN KEY (parent_image_id) on the rows of a table
parent_fk(imgs, parent) == foreign_keys => parent \subseteq 1..Len(imgs)

\* the same key for the row an INSERT adds: the statement is checked when it
\* ends, with the new row, whose id is Len(imgs) + 1, in the table
parent_fk_insert(imgs, parent) == foreign_keys => parent \subseteq 1..(Len(imgs) + 1)

\* a mutant of sql_insert_image_fails: the fingerprint's form is not checked
sql_insert_image_fails_unchecked(imgs, md5, parent, io_error) ==
    io_error \/ ~md5_unique(imgs, md5) \/ ~parent_fk_insert(imgs, parent)

\* cur.execute(INSERT INTO images ...) raises sqlite3.Error
sql_insert_image_fails(imgs, md5, parent, io_error) ==
    \/ io_error
    \/ ~md5_check(md5)
    \/ ~md5_unique(imgs, md5)
    \/ ~parent_fk_insert(imgs, parent)

fetchone(rows) == IF rows = <<>> THEN <<>> ELSE <<Head(rows)>>

\* the mutant of get_image_by_md5 that never finds a row
get_image_by_md5_miss(imgs, md5) == <<>>

\* SELECT * FROM images WHERE md5_checksum = ?; <<>> stands for None
get_image_by_md5(imgs, md5) ==
    fetchone(SelectSeq(imgs, LAMBDA r : r.md5_checksum = md5))

insert_image(imgs, filename, file_path, md5, parent, date_taken, io_error) ==
    IF get_image_by_md5(imgs, md5) # <<>>
    THEN [kind |-> "DuplicateImageError", images |-> imgs, value |-> 0]
    ELSE IF sql_insert_image_fails(imgs, md5, parent, io_error)
    THEN [kind |-> "DatabaseError", images |-> imgs, value |-> 0]
    ELSE [kind |-> "ok",
          images |-> Append(imgs, [image_id |-> Len(imgs) + 1,
                                   filename |-> filename,
                                   file_path |-> file_path,
                                   md5_checksum |-> md5,
                                   is_raw |-> 1,
                                   parent_image_id |-> parent,
                                   date_taken |-> date_taken,
                                   flash_missing |-> 0,
                                   cropped |-> 0,
                                   cropped_date |-> None,
                                   rotation_degrees |-> 0,
                                   rotated_date |-> None,
                                   last_changed |-> None]),
          value |-> Len(imgs) + 1]

(***************************************************************************)
(* Inputs drawn by the callers.                                            *)
(***************************************************************************)
ApiParents == { None, {1}, {2} }

PathTokens == { <<"d1">>, <<".", "d2", "e.nef">>, <<"nope">> }

RECURSIVE SeqsUpTo(_, _)
SeqsUpTo(S, n) ==
    IF n = 0 THEN { <<>> }
    ELSE LET shorter == SeqsUpTo(S, n - 1)
         IN  shorter \cup { Append(q, x) : q \in {r \in shorter : Len(r) = n - 1}, x \in S }

PathLists == SeqsUpTo(PathTokens, MaxPaths)

ExtensionArgs == { None, {<<>>}, {<<".nef">>}, {<<".NEF">>} }

all_image_extensions ==
    <<".nef", ".png", ".jpg", ".jpeg", ".tif", ".tiff", ".gif", ".bmp", ".webp",
      ".heic", ".heif", ".raw">>

NoRet == [op |-> "none", kind |-> "none", value |-> 0, md5 |-> ""]

\* the further managers, none of them in a call
Writers == 1..2

NoCall == [pc |-> "idle", md5 |-> "", kind |-> "none", error |-> ""]

NoWriters == [w \in Writers |-> NoCall]

\* PaintingManager(...) on directories that hold no metadata yet: an empty
\* DataFrame (df counts the changes made to it), no metadata.csv, and no file
\* in backup_dir (backups holds a record per file: its name and the DataFrame
\* written to it); now is the second the machine's local clock showed when it
\* was last read and set_back the number of times that clock was set back
NewManager ==
    [df |-> 0, metadata_file |-> None, backups |-> {}, now |-> 0, set_back |-> 0]

\* a mutant of stats0: only the paths that exist are counted
stats0_existing(ps) ==
    [scanned |-> 0, inserted |-> 0, duplicates |-> 0,
     total_paths |-> Cardinality({i \in 1..Len(ps) : isfile(ps[i]) \/ isdir(ps[i])})]

\* line 79: the counters a run starts with
stats0(ps) == [scanned |-> 0, inserted |-> 0, duplicates |-> 0, total_paths |-> Len(ps)]

Md5sOf(imgs) == {imgs[i].md5_checksum : i \in 1..Len(imgs)}

NoRun ==
    /\ pc = "idle"
    /\ paths = <<>>
    /\ ext_arg = None
    /\ extensions = <<>>
    /\ pi = 1
    /\ walking = FALSE
    /\ walk = {}
    /\ stats = stats0(<<>>)
    /\ visited = EmptyBag
    /\ md5_0 = {}
    /\ outcome = "none"

\* line 91: the tables _tables_present requires
required == {"images", "paintings", "painting_images", "ratings"}

\* A database file with the schema in place and no rows, and a manager whose
\* connection is closed.
Init ==
    /\ images = <<>>
    /\ conn = "none"
    /\ ret = NoRet
    /\ thumbs = {}
    /\ ingest_conn = "none"
    /\ db = "live"
    /\ schema_path = None
    /\ tables = required
    /\ paintings = <<>>
    /\ painting_images = <<>>
    /\ ratings = <<>>
    /\ kwargs = <<>>
    /\ args = <<>>
    /\ writers = NoWriters
    /\ pm = NewManager
    /\ NoRun

(***************************************************************************)
(* Store API, called by a caller that built its own DatabaseManager.       *)
(***************************************************************************)
\* a call that takes neither ids and score nor **kwargs
NoArguments == kwargs' = <<>> /\ args' = <<>>

\* DatabaseManager(db_path, schema_path) / open_connection
OpenConnection ==
    /\ pc = "idle"
    /\ conn = "none"
    /\ conn' = "open"
    /\ ret' = [NoRet EXCEPT !.op = "open_connection", !.kind = "ok"]
    /\ UNCHANGED <<images, thumbs, ingest_conn>>
    /\ UNCHANGED runVars
    /\ NoArguments
    /\ UNCHANGED tableVars

\* a mutant of CloseConnection: conn.close() without the `if self.conn` guard
CloseConnection_unguarded ==
    /\ pc = "idle"
    /\ conn' = "none"
    /\ ret' = [NoRet EXCEPT !.op = "close_connection",
                            !.kind = IF conn = "open" THEN "ok" ELSE "AttributeError"]
    /\ UNCHANGED <<images, thumbs, ingest_conn>>
    /\ UNCHANGED runVars
    /\ NoArguments
    /\ UNCHANGED tableVars

\* close_connection: closes if there is a connection, else does nothing
CloseConnection ==
    /\ pc = "idle"
    /\ conn' = "none"
    /\ ret' = [NoRet EXCEPT !.op = "close_connection", !.kind = "ok"]
    /\ UNCHANGED <<images, thumbs, ingest_conn>>
    /\ UNCHANGED runVars
    /\ NoArguments
    /\ UNCHANGED tableVars

\* db.insert_image(...) on the caller's manager
InsertImage ==
    \E md5 \in ApiMd5s, parent \in ApiParents, io_error \in BOOLEAN :
        /\ pc = "idle"
        /\ LET r == insert_image(images, "manual.nef", None, md5, parent, None, io_error)
           IN  IF conn = "open"
               THEN /\ images' = r.images
                    /\ ret' = [op |-> "insert_image", kind |-> r.kind,
                               value |-> r.value, md5 |-> md5]
               ELSE \* self.conn is None: self.conn.cursor() raises
                    /\ images' = images
                    /\ ret' = [op |-> "insert_image", kind |-> "AttributeError",
                               value |-> 0, md5 |-> md5]
        /\ UNCHANGED <<conn, thumbs, ingest_conn>>
        /\ UNCHANGED runVars
        /\ NoArguments
        /\ UNCHANGED tableVars

(***************************************************************************)
(* ingest_raw_images as written.                                           *)
(***************************************************************************)
\* a mutant of effective_extensions: an empty list stays empty
effective_extensions_keep_empty(arg) ==
    IF arg = None THEN all_image_extensions ELSE CHOOSE x \in arg : TRUE

\* lines 70-77: None and the empty list both select the default list
effective_extensions(arg) ==
    IF arg = None THEN all_image_extensions
    ELSE LET l == CHOOSE x \in arg : TRUE
         IN  IF Len(l) = 0 THEN all_image_extensions ELSE l

\* lines 70-80: the call's locals before the with statement
IngestLocals(ps, arg) ==
    /\ paths' = ps
    /\ ext_arg' = arg
    /\ extensions' = effective_extensions(arg)
    /\ stats' = stats0(ps)
    /\ md5_0' = Md5sOf(images)
    /\ visited' = EmptyBag
    /\ pi' = 1
    /\ walking' = FALSE
    /\ walk' = {}

\* Whether `with <manager> as db:` can enter: the class defines no
\* __enter__/__exit__, so the statement raises before the body runs.
supports_context_manager == FALSE

\* One call of ingest_raw_images: lines 70-82.  The manager is built (and its
\* connection opened) before the with statement raises; it is then garbage.
\* Nothing in ingest_raw_images closes it: an interpreter that counts
\* references runs __del__ while the exception unwinds, any other leaves the
\* connection open until the object is collected.
IngestRawImages ==
    \E ps \in PathLists, arg \in ExtensionArgs, finalized \in BOOLEAN :
        /\ pc = "idle"
        /\ ~supports_context_manager
        /\ IngestLocals(ps, arg)
        /\ ingest_conn' = IF finalized THEN "none" ELSE "open"
        /\ outcome' = "TypeError"
        /\ pc' = "done"
        /\ UNCHANGED <<images, conn, ret, thumbs>>
        /\ UNCHANGED catalogVars

\* __del__ of the unreferenced manager: close_connection
Finalize ==
    /\ ingest_conn = "open"
    /\ pc # "body"
    /\ ingest_conn' = "none"
    /\ UNCHANGED <<images, conn, ret, thumbs>>
    /\ UNCHANGED runVars
    /\ UNCHANGED catalogVars

\* The caller has read the summary or caught the exception (app.py
\* run_ingestion_with_logs): the finished call's locals are gone.
CallerDone ==
    /\ pc = "done"
    /\ pc' = "idle"
    /\ paths' = <<>>
    /\ ext_arg' = None
    /\ extensions' = <<>>
    /\ pi' = 1
    /\ walking' = FALSE
    /\ walk' = {}
    /\ stats' = stats0(<<>>)
    /\ visited' = EmptyBag
    /\ md5_0' = {}
    /\ outcome' = "none"
    /\ UNCHANGED <<images, conn, ret, thumbs, ingest_conn>>
    /\ UNCHANGED catalogVars

Next ==
    \/ OpenConnection
    \/ CloseConnection
    \/ InsertImage
    \/ IngestRawImages
    \/ Finalize
    \/ CallerDone

Spec == Init /\ [][Next]_vars

(***************************************************************************)
(* The body of the with-block: _process_path and _process_file.            *)
(***************************************************************************)
\* The store acquired as a scoped resource (spec 4.1, Close): entering yields
\* the open store, leaving closes it on every exit path.
ScopedEnter == ingest_conn' = "open"

ScopedExit == ingest_conn' = "none"

\* Python's `x in list`
InList(x, l) == \E i \in 1..Len(l) : l[i] = x

\* a mutant of file_ext: the suffix is compared as it stands
file_ext_as_is(abs) == splitext(basename(abs))

\* line 88: ext = os.path.splitext(abs_path)[1].lower()
file_ext(abs) == lower(splitext(basename(abs)))

\* a mutant of ext_allowed: no file is filtered out
ext_allowed_any(abs, exts) == TRUE

\* line 89: the file passes the filter
ext_allowed(abs, exts) == InList(file_ext(abs), exts)

\* mutants of caught_by_except: no except clause; `except DatabaseError`
caught_by_except_nothing(kind) == FALSE

caught_by_except_base(kind) == kind \in {"DuplicateImageError", "DatabaseError"}

\* line 110: `except DuplicateImageError` is the try statement's only clause
caught_by_except(kind) == kind = "DuplicateImageError"

\* a mutant of except_DuplicateImageError: the wrong counter
except_DuplicateImageError_inserted(st) == [st EXCEPT !.inserted = @ + 1]

\* lines 111-112: the handler
except_DuplicateImageError(st) == [st EXCEPT !.duplicates = @ + 1]

\* a mutant of process_file: a thumbnail is also made for a duplicate, under
\* the id of the row that holds the fingerprint
process_file_thumbnail_always(imgs, th, st, exts, fp, io_error, thumb_error) ==
    LET abs == abspath(fp)
        scanned == [st EXCEPT !.scanned = @ + 1]
        r == insert_image(imgs, basename(abs), {abs}, compute_md5(abs), None,
                          extract_exif_date(abs), io_error)
        exc == IF r.kind # "ok" THEN r.kind
               ELSE IF thumb_error THEN "OSError" ELSE "none"
    IN  IF ~ext_allowed(abs, exts)
        THEN [images |-> imgs, thumbs |-> th, stats |-> st, raised |-> "none"]
        ELSE IF exc = "none"
        THEN [images |-> r.images, thumbs |-> th \cup {r.value},
              stats |-> [scanned EXCEPT !.inserted = @ + 1], raised |-> "none"]
        ELSE IF caught_by_except(exc)
        THEN [images |-> r.images,
              thumbs |-> th \cup {get_image_by_md5(imgs, compute_md5(abs))[1].image_id},
              stats |-> except_DuplicateImageError(scanned), raised |-> "none"]
        ELSE [images |-> r.images, thumbs |-> th, stats |-> scanned, raised |-> exc]

\* _process_file(file_path), lines 84-112.  io_error: the store fails below
\* insert_image; thumb_error: create_thumbnail raises (PIL cannot read the
\* file, the thumbnail cannot be written).  raised names the exception that
\* leaves _process_file, "none" when it returns.
process_file(imgs, th, st, exts, fp, io_error, thumb_error) ==
    LET abs == abspath(fp)
        scanned == [st EXCEPT !.scanned = @ + 1]
        r == insert_image(imgs, basename(abs), {abs}, compute_md5(abs), None,
                          extract_exif_date(abs), io_error)
        \* the exception the try body ends with, "none" when it completes
        exc == IF r.kind # "ok" THEN r.kind
               ELSE IF thumb_error THEN "OSError" ELSE "none"
    IN  IF ~ext_allowed(abs, exts)
        THEN [images |-> imgs, thumbs |-> th, stats |-> st, raised |-> "none"]
        ELSE IF exc = "none"
        THEN [images |-> r.images, thumbs |-> th \cup {r.value},
              stats |-> [scanned EXCEPT !.inserted = @ + 1], raised |-> "none"]
        ELSE IF caught_by_except(exc)
        THEN [images |-> r.images, thumbs |-> th,
              stats |-> except_DuplicateImageError(scanned), raised |-> "none"]
        ELSE [images |-> r.images, thumbs |-> th, stats |-> scanned, raised |-> exc]

\* line 82, entered: the call's locals, the store open
IngestBegin ==
    \E ps \in PathLists, arg \in ExtensionArgs :
        /\ pc = "idle"
        /\ IngestLocals(ps, arg)
        /\ ScopedEnter
        /\ outcome' = "none"
        /\ pc' = "body"
        /\ UNCHANGED <<images, conn, ret, thumbs>>
        /\ UNCHANGED catalogVars

\* lines 125-126 and 115-116: the next path is a file
ProcessPathFile ==
    \E io_error \in BOOLEAN, thumb_error \in BOOLEAN :
        /\ pc = "body" /\ ~walking /\ pi <= Len(paths)
        /\ isfile(paths[pi])
        /\ LET r == process_file(images, thumbs, stats, extensions, paths[pi],
                                 io_error, thumb_error)
           IN  /\ images' = r.images
               /\ thumbs' = r.thumbs
               /\ stats' = r.stats
               /\ visited' = visited (+) SetToBag({paths[pi]})
               /\ IF r.raised = "none"
                  THEN /\ pi' = pi + 1
                       /\ UNCHANGED <<pc, outcome, ingest_conn>>
                  ELSE /\ pc' = "done"
                       /\ outcome' = r.raised
                       /\ ScopedExit
                       /\ UNCHANGED pi
        /\ UNCHANGED <<conn, ret, paths, ext_arg, extensions, walking, walk, md5_0>>
        /\ UNCHANGED catalogVars

\* lines 117-118: the next path is a directory; os.walk starts
ProcessPathDir ==
    /\ pc = "body" /\ ~walking /\ pi <= Len(paths)
    /\ ~isfile(paths[pi]) /\ isdir(paths[pi])
    /\ walk' = os_walk(paths[pi])
    /\ walking' = (os_walk(paths[pi]) # {})
    /\ pi' = IF os_walk(paths[pi]) = {} THEN pi + 1 ELSE pi
    /\ UNCHANGED <<images, conn, ret, thumbs, pc, paths, ext_arg, extensions, stats,
                   visited, md5_0, outcome, ingest_conn>>
    /\ UNCHANGED catalogVars

\* a mutant of ProcessPathInvalid: the bad path raises out of the run
ProcessPathInvalid_raises ==
    /\ pc = "body" /\ ~walking /\ pi <= Len(paths)
    /\ ~isfile(paths[pi]) /\ ~isdir(paths[pi])
    /\ pc' = "done"
    /\ outcome' = "FileNotFoundError"
    /\ ScopedExit
    /\ UNCHANGED <<images, conn, ret, thumbs, paths, ext_arg, extensions, pi, walking,
                   walk, stats, visited, md5_0>>
    /\ UNCHANGED catalogVars

\* lines 121-122: neither a file nor a directory; logged, nothing else
ProcessPathInvalid ==
    /\ pc = "body" /\ ~walking /\ pi <= Len(paths)
    /\ ~isfile(paths[pi]) /\ ~isdir(paths[pi])
    /\ pi' = pi + 1
    /\ UNCHANGED <<images, conn, ret, thumbs, pc, paths, ext_arg, extensions, walking,
                   walk, stats, visited, md5_0, outcome, ingest_conn>>
    /\ UNCHANGED catalogVars

\* lines 118-120: the walk yields its next file, in no specified order
WalkFile ==
    \E fp \in walk, io_error \in BOOLEAN, thumb_error \in BOOLEAN :
        /\ pc = "body" /\ walking
        /\ LET r == process_file(images, thumbs, stats, extensions, fp,
                                 io_error, thumb_error)
           IN  /\ images' = r.images
               /\ thumbs' = r.thumbs
               /\ stats' = r.stats
               /\ visited' = visited (+) SetToBag({fp})
               /\ walk' = walk \ {fp}
               /\ IF r.raised = "none"
                  THEN /\ walking' = (walk \ {fp} # {})
                       /\ pi' = IF walk \ {fp} = {} THEN pi + 1 ELSE pi
                       /\ UNCHANGED <<pc, outcome, ingest_conn>>
                  ELSE /\ pc' = "done"
                       /\ outcome' = r.raised
                       /\ ScopedExit
                       /\ UNCHANGED <<pi, walking>>
        /\ UNCHANGED <<conn, ret, paths, ext_arg, extensions, md5_0>>
        /\ UNCHANGED catalogVars

\* lines 128-129: every path handled; the store is released, stats returned
IngestReturn ==
    /\ pc = "body" /\ ~walking /\ pi > Len(paths)
    /\ ScopedExit
    /\ pc' = "done"
    /\ outcome' = "returned"
    /\ UNCHANGED <<images, conn, ret, thumbs, paths, ext_arg, extensions, pi, walking,
                   walk, stats, visited, md5_0>>
    /\ UNCHANGED catalogVars

NextScoped ==
    \/ IngestBegin
    \/ ProcessPathFile
    \/ ProcessPathDir
    \/ ProcessPathInvalid
    \/ WalkFile
    \/ IngestReturn
    \/ CallerDone

SpecScoped == Init /\ [][NextScoped]_vars

(***************************************************************************)
(* Opening the store: DatabaseManager.__init__, open_connection and        *)
(* _ensure_schema on a database file that holds any part of the schema.    *)
(***************************************************************************)
\* schema_path arguments: None, a path with no file behind it, the schema file
SchemaPaths == { None, {"missing.sql"}, {"db_schema.sql"} }

\* os.path.exists(schema_path)
path_exists(p) == p = "db_schema.sql"

\* conn.executescript(<db_schema.sql>): idempotent DDL for the four tables
executescript(tbls) == tbls \cup required

\* _tables_present, lines 85-98
tables_present(tbls) == required \subseteq tbls

\* a mutant of ensure_schema: missing tables are let through
ensure_schema_unchecked(tbls, sp, script_error) == [kind |-> "ok", tables |-> tbls]

\* _ensure_schema, lines 64-83.  script_error: executescript raises
\* sqlite3.Error (the file cannot be written)
ensure_schema(tbls, sp, script_error) ==
    IF tables_present(tbls) THEN [kind |-> "ok", tables |-> tbls]
    ELSE IF sp = None \/ ~path_exists(CHOOSE p \in sp : TRUE)
    THEN [kind |-> "DatabaseError", tables |-> tbls]
    ELSE IF script_error THEN [kind |-> "DatabaseError", tables |-> tbls]
    ELSE [kind |-> "ok", tables |-> executescript(tbls)]

\* A database file before the first open: any part of the schema, no rows,
\* no manager.
InitOpen ==
    /\ images = <<>>
    /\ conn = "none"
    /\ ret = NoRet
    /\ thumbs = {}
    /\ ingest_conn = "none"
    /\ db = "none"
    /\ schema_path = None
    /\ tables \in SUBSET required
    /\ paintings = <<>>
    /\ painting_images = <<>>
    /\ ratings = <<>>
    /\ kwargs = <<>>
    /\ args = <<>>
    /\ writers = NoWriters
    /\ pm = NewManager
    /\ NoRun

\* DatabaseManager(db_path, schema_path), lines 29-38.  connect_error:
\* sqlite3.connect raises.  When _ensure_schema raises, the constructor does
\* too: the caller gets no object, and the half-built one keeps its open
\* connection until it is finalised.
Construct ==
    \E sp \in SchemaPaths, connect_error \in BOOLEAN, script_error \in BOOLEAN :
        /\ pc = "idle"
        /\ db = "none" /\ conn = "none"
        /\ schema_path' = sp
        /\ IF connect_error
           THEN /\ ret' = [NoRet EXCEPT !.op = "DatabaseManager", !.kind = "DatabaseError"]
                /\ UNCHANGED <<db, conn, tables>>
           ELSE LET r == ensure_schema(tables, sp, script_error)
                IN  /\ ret' = [NoRet EXCEPT !.op = "DatabaseManager", !.kind = r.kind]
                    /\ tables' = r.tables
                    /\ conn' = "open"
                    /\ db' = IF r.kind = "ok" THEN "live" ELSE "none"
        /\ UNCHANGED <<images, thumbs, ingest_conn, paintings, painting_images, ratings,
                       kwargs, args, writers, pm>>
        /\ UNCHANGED runVars

\* __del__ of the object whose constructor raised: close_connection
FinalizeFailed ==
    /\ db = "none" /\ conn = "open"
    /\ conn' = "none"
    /\ UNCHANGED <<images, ret, thumbs, ingest_conn>>
    /\ UNCHANGED runVars
    /\ UNCHANGED catalogVars

\* The caller drops its manager; __del__ closes the connection.
Discard ==
    /\ pc = "idle"
    /\ db = "live"
    /\ db' = "none"
    /\ conn' = "none"
    /\ UNCHANGED <<images, ret, thumbs, ingest_conn>>
    /\ UNCHANGED runVars
    /\ UNCHANGED <<schema_path, tables, paintings, painting_images, ratings, kwargs, args,
                   writers, pm>>

NextOpen ==
    \/ Construct
    \/ FinalizeFailed
    \/ Discard
    \/ db = "live" /\ OpenConnection
    \/ db = "live" /\ CloseConnection
    \/ db = "live" /\ InsertImage

SpecOpen == InitOpen /\ [][NextOpen]_vars

(***************************************************************************)
(* Editing rows: update_image, insert_painting, update_painting, and the   *)
(* admin form that saves an image's editable fields.                       *)
(***************************************************************************)
MaxPaintings == 1      \* rows insert_painting may add to paintings

\* the columns of the two tables that the rows of the model carry
image_columns ==
    {"image_id", "filename", "file_path", "md5_checksum", "is_raw", "parent_image_id",
     "date_taken", "flash_missing", "cropped", "cropped_date", "rotation_degrees", "rotated_date",
     "last_changed"}

painting_columns ==
    {"painting_id", "name", "explicit_year", "inferred_year", "personal_favourite"}

\* UPDATE ... SET k = ?, ... applied to one row
set_fields(row, kw) == [k \in DOMAIN row |-> IF k \in DOMAIN kw THEN kw[k] ELSE row[k]]

\* a mutant of sql_update: the matching rows are deleted
sql_update_delete(rows, idcol, id, kw) == SelectSeq(rows, LAMBDA r : r[idcol] # id)

\* a mutant of sql_update: the WHERE clause is dropped
sql_update_all(rows, idcol, id, kw) ==
    [i \in 1..Len(rows) |-> set_fields(rows[i], kw)]

\* UPDATE <table> SET ... WHERE <idcol> = ?: rows that match no id are left
\* alone, and a statement that matches no row is not an error
sql_update(rows, idcol, id, kw) ==
    [i \in 1..Len(rows) |-> IF rows[i][idcol] = id THEN set_fields(rows[i], kw)
                            ELSE rows[i]]

\* the constraints of the images table on its rows
images_constraints(imgs) ==
    /\ \A i \in 1..Len(imgs) : md5_check(imgs[i].md5_checksum)
    /\ \A i, j \in 1..Len(imgs) : i # j => imgs[i].md5_checksum # imgs[j].md5_checksum
    /\ \A i \in 1..Len(imgs) : parent_fk(imgs, imgs[i].parent_image_id)

\* update_image(image_id, **kwargs), lines 178-202
update_image(imgs, image_id, kw, io_error) ==
    IF DOMAIN kw = {} THEN [kind |-> "ok", images |-> imgs]
    ELSE LET upd == sql_update(imgs, "image_id", image_id, kw)
         IN  IF io_error \/ ~(DOMAIN kw \subseteq image_columns) \/ ~images_constraints(upd)
             THEN [kind |-> "DatabaseError", images |-> imgs]
             ELSE [kind |-> "ok", images |-> upd]

\* insert_painting(name, ...), lines 208-233
insert_painting(pts, name, io_error) ==
    IF io_error THEN [kind |-> "DatabaseError", paintings |-> pts, value |-> 0]
    ELSE [kind |-> "ok",
          paintings |-> Append(pts, [painting_id |-> Len(pts) + 1,
                                     name |-> name,
                                     explicit_year |-> None,
                                     inferred_year |-> None,
                                     personal_favourite |-> 0]),
          value |-> Len(pts) + 1]

\* update_painting(painting_id, **kwargs), lines 235-259
update_painting(pts, painting_id, kw, io_error) ==
    IF DOMAIN kw = {} THEN [kind |-> "ok", paintings |-> pts]
    ELSE IF io_error \/ ~(DOMAIN kw \subseteq painting_columns)
    THEN [kind |-> "DatabaseError", paintings |-> pts]
    ELSE [kind |-> "ok", paintings |-> sql_update(pts, "painting_id", painting_id, kw)]

\* field sets and ids the callers pass
CropFields == [cropped |-> 1, cropped_date |-> {"2025-01-29T11:00:00"}]

ImageFieldSets ==
    { <<>>,
      CropFields,                                     \* tests/test_db_manager.py line 58
      [cropped |-> 1],
      [md5_checksum |-> hexdigest("2")],
      [md5_checksum |-> "ZZZZZZZZZZZZZZ"],
      [no_such_column |-> 1] }

PaintingFieldSets == { <<>>, [inferred_year |-> {2015}, personal_favourite |-> 1] }

RowIds == 1..3

\* db.update_image(image_id, **kwargs) on the caller's manager
UpdateImage ==
    \E id \in RowIds, kw \in ImageFieldSets, io_error \in BOOLEAN :
        /\ pc = "idle"
        /\ kwargs' = kw
        /\ LET r == update_image(images, id, kw, io_error)
           IN  IF conn = "open" \/ DOMAIN kw = {}
               THEN /\ images' = r.images
                    /\ ret' = [op |-> "update_image", kind |-> r.kind, value |-> id,
                               md5 |-> ""]
               ELSE \* self.conn is None: self.conn.cursor() raises
                    /\ images' = images
                    /\ ret' = [op |-> "update_image", kind |-> "AttributeError",
                               value |-> id, md5 |-> ""]
        /\ UNCHANGED <<conn, thumbs, ingest_conn>>
        /\ UNCHANGED runVars
        /\ args' = <<>>
        /\ UNCHANGED <<pm, writers, db, schema_path, tables, paintings, painting_images, ratings>>

\* db.insert_painting(name=...) on the caller's manager
InsertPainting ==
    \E io_error \in BOOLEAN :
        /\ pc = "idle"
        /\ Len(paintings) < MaxPaintings
        /\ LET r == insert_painting(paintings, "Boat Scene", io_error)
           IN  IF conn = "open"
               THEN /\ paintings' = r.paintings
                    /\ ret' = [op |-> "insert_painting", kind |-> r.kind,
                               value |-> r.value, md5 |-> ""]
               ELSE /\ paintings' = paintings
                    /\ ret' = [op |-> "insert_painting", kind |-> "AttributeError",
                               value |-> 0, md5 |-> ""]
        /\ UNCHANGED <<images, conn, thumbs, ingest_conn>>
        /\ UNCHANGED runVars
        /\ NoArguments
        /\ UNCHANGED <<pm, writers, db, schema_path, tables, painting_images, ratings>>

\* db.update_painting(painting_id, **kwargs) on the caller's manager
UpdatePainting ==
    \E id \in RowIds, kw \in PaintingFieldSets, io_error \in BOOLEAN :
        /\ pc = "idle"
        /\ kwargs' = kw
        /\ LET r == update_painting(paintings, id, kw, io_error)
           IN  IF conn = "open" \/ DOMAIN kw = {}
               THEN /\ paintings' = r.paintings
                    /\ ret' = [op |-> "update_painting", kind |-> r.kind, value |-> id,
                               md5 |-> ""]
               ELSE /\ paintings' = paintings
                    /\ ret' = [op |-> "update_painting", kind |-> "AttributeError",
                               value |-> id, md5 |-> ""]
        /\ UNCHANGED <<images, conn, thumbs, ingest_conn>>
        /\ UNCHANGED runVars
        /\ args' = <<>>
        /\ UNCHANGED <<pm, writers, db, schema_path, tables, painting_images, ratings>>

\* POST /admin/image/<image_id> (app.py admin_image_detail) as written: the
\* with statement raises before the UPDATE, and `except DatabaseError` does
\* not catch it.
AdminImageDetail ==
    \E id \in RowIds :
        /\ pc = "idle"
        /\ ~supports_context_manager
        /\ ret' = [op |-> "admin_image_detail", kind |-> "TypeError", value |-> id,
                   md5 |-> ""]
        /\ UNCHANGED <<images, conn, thumbs, ingest_conn>>
        /\ UNCHANGED runVars
        /\ UNCHANGED catalogVars

NextEdit ==
    \/ OpenConnection
    \/ CloseConnection
    \/ InsertImage
    \/ UpdateImage
    \/ InsertPainting
    \/ UpdatePainting
    \/ AdminImageDetail

SpecEdit == Init /\ [][NextEdit]_vars

\* The admin form with its with-block entered: the store acquired as the
\* scoped resource of spec section 4.1.
scoped_store_enters == TRUE

\* the UPDATE statement of admin_image_detail (app.py lines 256-266), on the
\* columns the rows of the model carry
admin_fields(is_raw_val, flash_missing_val, cropped_val, now_str) ==
    [is_raw |-> is_raw_val, flash_missing |-> flash_missing_val,
     cropped |-> cropped_val, last_changed |-> {now_str}]

\* POST /admin/image/<image_id> with the with-block entered: the UPDATE runs
\* on the block's own connection and is committed
AdminImageDetailScoped ==
    \E id \in RowIds, is_raw_val \in {0, 1}, cropped_val \in {0, 1} :
        /\ pc = "idle"
        /\ scoped_store_enters
        /\ images' = sql_update(images, "image_id", id,
                                admin_fields(is_raw_val, 0, cropped_val, "now"))
        /\ ret' = [op |-> "admin_image_detail", kind |-> "ok", value |-> id, md5 |-> ""]
        /\ UNCHANGED <<conn, thumbs, ingest_conn>>
        /\ UNCHANGED runVars
        /\ UNCHANGED catalogVars

NextEditScoped ==
    \/ OpenConnection
    \/ CloseConnection
    \/ InsertImage
    \/ AdminImageDetailScoped

SpecEditScoped == Init /\ [][NextEditScoped]_vars

(***************************************************************************)
(* Links and ratings: link_painting_to_image and insert_rating.  The       *)
(* foreign keys and the CHECK on score are those of the persisted schema   *)
(* of spec section 6.                                                      *)
(***************************************************************************)
MaxLinks == 2          \* rows link_painting_to_image may add to painting_images
MaxRatings == 2        \* rows insert_rating may add to ratings

ImageIds(imgs) == {imgs[i].image_id : i \in 1..Len(imgs)}

PaintingIds(pts) == {pts[i].painting_id : i \in 1..Len(pts)}

\* FOREIGN KEY (painting_id) / (image_id) of painting_images and ratings
references_ok(pts, imgs, painting_id, image_id) ==
    foreign_keys => painting_id \in PaintingIds(pts) /\ image_id \in ImageIds(imgs)

\* CHECK on ratings.score
score_check(score) == score \in 1..5

\* link_painting_to_image(painting_id, image_id), lines 265-276
link_painting_to_image(links, pts, imgs, painting_id, image_id, io_error) ==
    IF io_error \/ ~references_ok(pts, imgs, painting_id, image_id)
    THEN [kind |-> "DatabaseError", painting_images |-> links]
    ELSE [kind |-> "ok",
          painting_images |-> Append(links, [painting_id |-> painting_id,
                                             image_id |-> image_id])]

\* a mutant of insert_rating: the score is brought into range, then stored
insert_rating_clamped(rts, pts, imgs, painting_id, image_id, score, user, io_error) ==
    [kind |-> "ok",
     ratings |-> Append(rts, [rating_id |-> Len(rts) + 1,
                              painting_id |-> painting_id, image_id |-> image_id,
                              score |-> IF score < 1 THEN 1 ELSE IF score > 5 THEN 5
                                        ELSE score,
                              user |-> user]),
     value |-> Len(rts) + 1]

\* insert_rating(painting_id, image_id, score, user), lines 282-305
insert_rating(rts, pts, imgs, painting_id, image_id, score, user, io_error) ==
    IF io_error \/ ~score_check(score) \/ ~references_ok(pts, imgs, painting_id, image_id)
    THEN [kind |-> "DatabaseError", ratings |-> rts, value |-> 0]
    ELSE [kind |-> "ok",
          ratings |-> Append(rts, [rating_id |-> Len(rts) + 1,
                                   painting_id |-> painting_id, image_id |-> image_id,
                                   score |-> score, user |-> user]),
          value |-> Len(rts) + 1]

\* ids and scores the callers pass
LinkIds == 1..2

Scores == {0, 1, 5, 6, 10}

\* db.link_painting_to_image(painting_id, image_id) on the caller's manager
LinkPaintingToImage ==
    \E painting_id \in LinkIds, image_id \in LinkIds, io_error \in BOOLEAN :
        /\ pc = "idle"
        /\ Len(painting_images) < MaxLinks
        /\ args' = <<painting_id, image_id>>
        /\ LET r == link_painting_to_image(painting_images, paintings, images,
                                           painting_id, image_id, io_error)
           IN  IF conn = "open"
               THEN /\ painting_images' = r.painting_images
                    /\ ret' = [op |-> "link_painting_to_image", kind |-> r.kind,
                               value |-> 0, md5 |-> ""]
               ELSE \* self.conn is None: self.conn.cursor() raises
                    /\ painting_images' = painting_images
                    /\ ret' = [op |-> "link_painting_to_image", kind |-> "AttributeError",
                               value |-> 0, md5 |-> ""]
        /\ UNCHANGED <<images, conn, thumbs, ingest_conn>>
        /\ UNCHANGED runVars
        /\ kwargs' = <<>>
        /\ UNCHANGED <<pm, writers, db, schema_path, tables, paintings, ratings>>

\* db.insert_rating(painting_id, image_id, score, user) on the caller's manager
InsertRating ==
    \E painting_id \in LinkIds, image_id \in LinkIds, score \in Scores,
       io_error \in BOOLEAN :
        /\ pc = "idle"
        /\ Len(ratings) < MaxRatings
        /\ args' = <<painting_id, image_id, score>>
        /\ LET r == insert_rating(ratings, paintings, images, painting_id, image_id,
                                  score, {"Juan"}, io_error)
           IN  IF conn = "open"
               THEN /\ ratings' = r.ratings
                    /\ ret' = [op |-> "insert_rating", kind |-> r.kind,
                               value |-> r.value, md5 |-> ""]
               ELSE /\ ratings' = ratings
                    /\ ret' = [op |-> "insert_rating", kind |-> "AttributeError",
                               value |-> 0, md5 |-> ""]
        /\ UNCHANGED <<images, conn, thumbs, ingest_conn>>
        /\ UNCHANGED runVars
        /\ kwargs' = <<>>
        /\ UNCHANGED <<pm, writers, db, schema_path, tables, paintings, painting_images>>

NextLinks ==
    \/ OpenConnection
    \/ CloseConnection
    \/ InsertImage
    \/ InsertPainting
    \/ LinkPaintingToImage

SpecLinks == Init /\ [][NextLinks]_vars

NextRatings ==
    \/ OpenConnection
    \/ CloseConnection
    \/ InsertImage
    \/ InsertPainting
    \/ InsertRating

SpecRatings == Init /\ [][NextRatings]_vars

(***************************************************************************)
(* The whole store API on one store: every DatabaseManager method that     *)
(* writes to a table, in any order.                                        *)
(***************************************************************************)
MaxRows == 3           \* rows the four tables may hold together

NextCore ==
    /\ \/ OpenConnection
       \/ CloseConnection
       \/ InsertImage
       \/ UpdateImage
       \/ InsertPainting
       \/ UpdatePainting
       \/ LinkPaintingToImage
       \/ InsertRating
    /\ Len(images') + Len(paintings') + Len(painting_images') + Len(ratings') <= MaxRows

SpecCore == Init /\ [][NextCore]_vars

(***************************************************************************)
(* The commit of a write.  Each writing method runs cur.execute(...) and   *)
(* then self.conn.commit() inside one try; the except clause raises        *)
(* DatabaseError and does not roll back.  When commit() raises (the file   *)
(* is locked by another connection, the disk is full) the executed         *)
(* statement stays in the connection's open transaction: the tables as the *)
(* manager reads them hold the row, and the next commit that succeeds      *)
(* makes it durable.  The tables below are the tables as the manager's     *)
(* connection, kept open, reads them.                                      *)
(***************************************************************************)
\* lines 152-162 with the commit at line 155 raising sqlite3.Error
insert_image_commit(imgs, filename, file_path, md5, parent, date_taken, io_error, commit_error) ==
    LET r == insert_image(imgs, filename, file_path, md5, parent, date_taken, io_error)
    IN  IF r.kind = "ok" /\ commit_error
        THEN [kind |-> "DatabaseError", images |-> r.images, value |-> 0]
        ELSE r

\* lines 268-276 with the commit at line 271 raising sqlite3.Error
link_painting_to_image_commit(links, pts, imgs, painting_id, image_id, io_error, commit_error) ==
    LET r == link_painting_to_image(links, pts, imgs, painting_id, image_id, io_error)
    IN  IF r.kind = "ok" /\ commit_error
        THEN [kind |-> "DatabaseError", painting_images |-> r.painting_images]
        ELSE r

\* lines 295-305 with the commit at line 298 raising sqlite3.Error
insert_rating_commit(rts, pts, imgs, painting_id, image_id, score, user, io_error, commit_error) ==
    LET r == insert_rating(rts, pts, imgs, painting_id, image_id, score, user, io_error)
    IN  IF r.kind = "ok" /\ commit_error
        THEN [kind |-> "DatabaseError", ratings |-> r.ratings, value |-> 0]
        ELSE r

\* db.insert_image(...) on a manager whose connection is open
InsertImageCommit ==
    \E md5 \in ApiMd5s, parent \in ApiParents, io_error \in BOOLEAN,
       commit_error \in BOOLEAN :
        /\ pc = "idle"
        /\ conn = "open"
        /\ LET r == insert_image_commit(images, "manual.nef", None, md5, parent, None,
                                        io_error, commit_error)
           IN  /\ images' = r.images
               /\ ret' = [op |-> "insert_image", kind |-> r.kind, value |-> r.value,
                          md5 |-> md5]
        /\ UNCHANGED <<conn, thumbs, ingest_conn>>
        /\ UNCHANGED runVars
        /\ NoArguments
        /\ UNCHANGED tableVars

\* db.link_painting_to_image(painting_id, image_id) on the same manager
LinkPaintingToImageCommit ==
    \E painting_id \in LinkIds, image_id \in LinkIds, io_error \in BOOLEAN,
       commit_error \in BOOLEAN :
        /\ pc = "idle"
        /\ conn = "open"
        /\ Len(painting_images) < MaxLinks
        /\ args' = <<painting_id, image_id>>
        /\ LET r == link_painting_to_image_commit(painting_images, paintings, images,
                                                  painting_id, image_id, io_error,
                                                  commit_error)
           IN  /\ painting_images' = r.painting_images
               /\ ret' = [op |-> "link_painting_to_image", kind |-> r.kind,
                          value |-> 0, md5 |-> ""]
        /\ UNCHANGED <<images, conn, thumbs, ingest_conn>>
        /\ UNCHANGED runVars
        /\ kwargs' = <<>>
        /\ UNCHANGED <<pm, writers, db, schema_path, tables, paintings, ratings>>

\* db.insert_rating(painting_id, image_id, score, user) on the same manager
InsertRatingCommit ==
    \E painting_id \in LinkIds, image_id \in LinkIds, score \in Scores,
       io_error \in BOOLEAN, commit_error \in BOOLEAN :
        /\ pc = "idle"
        /\ conn = "open"
        /\ Len(ratings) < MaxRatings
        /\ args' = <<painting_id, image_id, score>>
        /\ LET r == insert_rating_commit(ratings, paintings, images, painting_id,
                                         image_id, score, {"Juan"}, io_error,
                                         commit_error)
           IN  /\ ratings' = r.ratings
               /\ ret' = [op |-> "insert_rating", kind |-> r.kind, value |-> r.value,
                          md5 |-> ""]
        /\ UNCHANGED <<images, conn, thumbs, ingest_conn>>
        /\ UNCHANGED runVars
        /\ kwargs' = <<>>
        /\ UNCHANGED <<pm, writers, db, schema_path, tables, paintings, painting_images>>

NextCommit ==
    \/ OpenConnection
    \/ InsertPainting
    \/ InsertImageCommit
    \/ LinkPaintingToImageCommit
    \/ InsertRatingCommit

SpecCommit == Init /\ [][NextCommit]_vars

(***************************************************************************)
(* Two writers.  insert_image is a lookup (line 125) followed by an INSERT *)
(* and its commit (lines 152-155); nothing holds the file between the two. *)
(* Each writer is a DatabaseManager of its own on the same database file,  *)
(* so the steps of two calls can interleave.                               *)
(***************************************************************************)
\* fingerprints the writers insert
WriterMd5s == { hexdigest("1"), hexdigest("2") }

\* line 125: the writer's lookup; a row found ends the call with
\* DuplicateImageError
WriterLookup(w) ==
    \E md5 \in WriterMd5s :
        /\ pc = "idle"
        /\ writers[w].pc = "idle"
        /\ writers' =
               [writers EXCEPT ![w] =
                   IF get_image_by_md5(images, md5) # <<>>
                   THEN [pc |-> "done", md5 |-> md5, kind |-> "DuplicateImageError",
                         error |-> ""]
                   ELSE [pc |-> "insert", md5 |-> md5, kind |-> "none", error |-> ""]]
        /\ UNCHANGED <<images, conn, ret, thumbs, ingest_conn>>
        /\ UNCHANGED runVars
        /\ UNCHANGED <<db, schema_path, tables, paintings, painting_images, ratings,
                       kwargs, args, pm>>

\* lines 152-162: the writer's INSERT and commit, on the table as it is now
WriterInsert(w) ==
    \E io_error \in BOOLEAN :
        /\ pc = "idle"
        /\ writers[w].pc = "insert"
        /\ LET md5 == writers[w].md5
               unique == md5_unique(images, md5)
           IN  IF sql_insert_image_fails(images, md5, None, io_error)
               THEN /\ images' = images
                    /\ writers' =
                           [writers EXCEPT ![w] =
                               [pc |-> "done", md5 |-> md5, kind |-> "DatabaseError",
                                error |-> IF unique THEN "disk I/O error"
                                          ELSE "UNIQUE constraint failed"]]
               ELSE /\ images' = insert_image(images, "manual.nef", None, md5, None,
                                              None, FALSE).images
                    /\ writers' =
                           [writers EXCEPT ![w] =
                               [pc |-> "done", md5 |-> md5, kind |-> "ok",
                                error |-> ""]]
        /\ UNCHANGED <<conn, ret, thumbs, ingest_conn>>
        /\ UNCHANGED runVars
        /\ UNCHANGED <<db, schema_path, tables, paintings, painting_images, ratings,
                       kwargs, args, pm>>

\* the writer's caller has seen how the call ended
WriterReturn(w) ==
    /\ pc = "idle"
    /\ writers[w].pc = "done"
    /\ writers' = [writers EXCEPT ![w] = NoCall]
    /\ UNCHANGED <<images, conn, ret, thumbs, ingest_conn>>
    /\ UNCHANGED runVars
    /\ UNCHANGED <<db, schema_path, tables, paintings, painting_images, ratings,
                   kwargs, args, pm>>

NextWriters ==
    \E w \in Writers :
        \/ WriterLookup(w)
        \/ WriterInsert(w)
        \/ WriterReturn(w)

SpecWriters == Init /\ [][NextWriters]_vars

(***************************************************************************)
(* Notions the properties are stated with.                                 *)
(***************************************************************************)
RowsWithMd5(imgs, md5) == {i \in 1..Len(imgs) : imgs[i].md5_checksum = md5}

\* The suffix of a file, case folded, is an entry of the allow-list.
SuffixListed(fp, exts) ==
    \E i \in 1..Len(exts) : exts[i] = lower(splitext(basename(abspath(fp))))

\* The suffix of a file equals an entry of the allow-list, ignoring case on
\* both sides.
SuffixListedAnyCase(fp, exts) ==
    \E i \in 1..Len(exts) : lower(exts[i]) = lower(splitext(basename(abspath(fp))))

Fingerprint(fp) == hexdigest(ReadBytes(fp))

\* The files one input path contributes, and the bag of files a whole run
\* has to hand to _process_file.
CandidatesOf(p) == IF isfile(p) THEN {p} ELSE IF isdir(p) THEN os_walk(p) ELSE {}

RECURSIVE CandidateBag(_, _)
CandidateBag(ps, n) ==
    IF n = 0 THEN EmptyBag
    ELSE CandidateBag(ps, n - 1) (+) SetToBag(CandidatesOf(ps[n]))

\* The part of a bag of files that is listed by the allow-list.
ListedBag(b, exts) ==
    [f \in {g \in BagToSet(b) : SuffixListed(g, exts)} |-> b[f]]

\* A step that is one call of _process_file, and the file it is given.
ProcessFileStep == pc = "body" /\ visited' # visited

StepFile == CHOOSE fp \in BagToSet(visited') : visited' = visited (+) SetToBag({fp})

RunOver == pc = "done"

Returned == pc = "done" /\ outcome = "returned"

\* a directory whose files all pass the filter and differ in content
DistinctListedDir(p, exts) ==
    /\ isdir(p)
    /\ \A f \in os_walk(p) : SuffixListed(f, exts)
    /\ \A f, g \in os_walk(p) : f # g => ReadBytes(f) # ReadBytes(g)

\* the files a full run scans: its candidates that the filter lets pass
ScannedBag == ListedBag(CandidateBag(paths, Len(paths)), extensions)

\* _process_file is given a listed file whose fingerprint the store holds
DuplicateStep ==
    /\ ProcessFileStep
    /\ SuffixListed(StepFile, extensions)
    /\ Fingerprint(StepFile) \in Md5sOf(images)

\* the file passed the filter, its fingerprint was new, and no row was added
InsertFailedStep ==
    /\ ProcessFileStep
    /\ SuffixListed(StepFile, extensions)
    /\ Fingerprint(StepFile) \notin Md5sOf(images)
    /\ images' = images

\* a row was added and no thumbnail written
ThumbnailFailedStep ==
    /\ ProcessFileStep
    /\ Len(images') = Len(images) + 1
    /\ thumbs' = thumbs

\* _process_path is at a path that is neither a file nor a directory
AtInvalidPath ==
    /\ pc = "body" /\ ~walking /\ pi <= Len(paths)
    /\ CandidatesOf(paths[pi]) = {}
    /\ abspath(paths[pi]) \notin Dirs

C2_IdempotentIngest ==
    ( /\ RunOver
      /\ outcome \notin {"DatabaseError", "OSError"}
      /\ Len(paths) = 1
      /\ DistinctListedDir(paths[1], extensions) )
    => LET N == Cardinality(os_walk(paths[1]))
           fps == {Fingerprint(f) : f \in os_walk(paths[1])}
       IN  /\ md5_0 = {} =>
                /\ outcome = "returned"
                /\ stats.inserted = N /\ stats.duplicates = 0
                /\ Len(images) = N
           /\ md5_0 = fps =>
                /\ outcome = "returned"
                /\ stats.inserted = 0 /\ stats.duplicates = N
                /\ Len(images) = N

SchemaAvailable(sp) == sp # None /\ path_exists(CHOOSE p \in sp : TRUE)

\* one DatabaseManager(...) call on a file from which required tables are missing
ConstructOnPartial == Construct /\ ~tables_present(tables)

\* such a call that connected and was given no usable schema definition
MissingSchemaFailure ==
    ConstructOnPartial /\ conn' = "open" /\ ~SchemaAvailable(schema_path')

StoreRows == <<images, paintings, painting_images, ratings>>

\* the exception classes insert_image raises for a storage failure and for a
\* duplicate
StorageKind == insert_image(<<>>, "f", None, hexdigest("1"), None, None, TRUE).kind

DuplicateKind ==
    insert_image(insert_image(<<>>, "f", None, hexdigest("1"), None, None, FALSE).images,
                 "g", None, hexdigest("1"), None, None, FALSE).kind

(***************************************************************************)
(* C11: DatabaseManager(...) on a file from which any required table is    *)
(* missing applies the schema definition it was given, after which all     *)
(* four tables exist and the manager is usable; given no schema            *)
(* definition, or one that does not exist, it raises at construction, the  *)
(* caller holds no manager, the tables are as they were, and no step       *)
(* touches a row while a required table is missing.                        *)
(***************************************************************************)
C11_OpenEnsuresSchema ==
    /\ [][ ConstructOnPartial =>
             /\ (SchemaAvailable(schema_path') /\ ret'.kind = "ok") =>
                    tables_present(tables') /\ db' = "live" /\ conn' = "open"
             /\ ~SchemaAvailable(schema_path') => ret'.kind = "DatabaseError"
             /\ ret'.kind # "ok" => db' = "none" /\ tables' = tables ]_vars
    /\ [][ ~tables_present(tables) =>
             /\ StoreRows' = StoreRows
             /\ ret'.op \in {"none", "DatabaseManager"} ]_vars
    /\ [](db = "live" => tables_present(tables))

\* a call without a schema definition has just failed on a partial schema:
\* it had connected, the caller holds no manager, the tables are still missing
C11_Witness ==
    /\ ret.op = "DatabaseManager" /\ ret.kind = "DatabaseError"
    /\ schema_path = None
    /\ tables # {} /\ ~tables_present(tables)
    /\ conn = "open" /\ db = "none"
    /\ images = <<>>

(***************************************************************************)
(* C12: the configuration error (schema missing, no definition to apply),  *)
(* the duplicate condition and the storage error reach the caller as three *)
(* different exception classes: what a failed open for want of a schema    *)
(* raises is neither what a storage failure raises nor what a duplicate    *)
(* raises, and those two differ from each other.                           *)
(***************************************************************************)
C12_DistinctConditions ==
    [][ MissingSchemaFailure =>
          /\ ret'.kind \notin {"ok", StorageKind, DuplicateKind}
          /\ StorageKind # DuplicateKind ]_vars

(***************************************************************************)
(* C13: on every exit path of ingest_raw_images, normal return or abort by *)
(* an exception, the connection of the manager the call acquired has been  *)
(* closed by the time the call is over.                                    *)
(***************************************************************************)
C13_StoreReleasedOnExit == [](RunOver => ingest_conn = "none")

(***************************************************************************)
(* Notions for the properties of editing rows.                             *)
(***************************************************************************)
\* steps that are one call of a store method
UpdateImageStep == ret'.op = "update_image" /\ UpdateImage

UpdatePaintingStep == ret'.op = "update_painting" /\ UpdatePainting

InsertImageStep == ret'.op = "insert_image" /\ InsertImage

(***************************************************************************)
(* C14: update_image applies only the fields it is given.  With no field   *)
(* the call succeeds and the images table is unchanged; in every call a    *)
(* field of a row changes only if the row is the addressed one and the     *)
(* field was supplied, and then to the supplied value; a successful call   *)
(* with {cropped: 1, cropped_date: T} leaves the addressed row equal to    *)
(* what it was except for those two fields.  No row is added or removed    *)
(* and no other table changes.                                             *)
(***************************************************************************)
C14_PartialUpdate ==
    [][ UpdateImageStep =>
          /\ Len(images') = Len(images)
          /\ UNCHANGED <<paintings, painting_images, ratings, thumbs>>
          /\ DOMAIN kwargs' = {} => images' = images /\ ret'.kind = "ok"
          /\ \A i \in 1..Len(images) : \A k \in DOMAIN images[i] :
                images'[i][k] # images[i][k] =>
                    /\ images[i].image_id = ret'.value
                    /\ k \in DOMAIN kwargs'
                    /\ images'[i][k] = kwargs'[k]
          /\ (kwargs' = CropFields /\ ret'.kind = "ok") =>
                \A i \in 1..Len(images) :
                    images[i].image_id = ret'.value =>
                        images'[i] = [images[i] EXCEPT
                                         !.cropped = 1,
                                         !.cropped_date = CropFields.cropped_date] ]_vars

\* update_image(id, cropped=1, cropped_date=T) has just succeeded on one of
\* two rows: that row is marked, the other is not
C14_Witness ==
    /\ ret.op = "update_image" /\ ret.kind = "ok"
    /\ kwargs = CropFields
    /\ Len(images) = 2
    /\ images[ret.value].cropped = 1
    /\ images[ret.value].cropped_date = CropFields.cropped_date
    /\ \E i \in 1..Len(images) : i # ret.value /\ images[i].cropped = 0

(***************************************************************************)
(* C15: update_image and update_painting, called on an open store with a   *)
(* non-empty field set and an id that no row has, raise DatabaseError and  *)
(* change no row.                                                          *)
(***************************************************************************)
C15_UnknownIdFails ==
    [][ /\ ( /\ UpdateImageStep
             /\ conn = "open" /\ DOMAIN kwargs' # {}
             /\ ret'.value \notin ImageIds(images) )
           => ret'.kind = "DatabaseError" /\ images' = images
        /\ ( /\ UpdatePaintingStep
             /\ conn = "open" /\ DOMAIN kwargs' # {}
             /\ ret'.value \notin PaintingIds(paintings) )
           => ret'.kind = "DatabaseError" /\ paintings' = paintings ]_vars

(***************************************************************************)
(* C16: no step changes the image_id or the md5_checksum of a row of the   *)
(* images table, and no row disappears.                                    *)
(***************************************************************************)
C16_IdAndFingerprintFixed ==
    [][ /\ Len(images') >= Len(images)
        /\ \A i \in 1..Len(images) :
              /\ images'[i].image_id = images[i].image_id
              /\ images'[i].md5_checksum = images[i].md5_checksum ]_vars

C20_FingerprintValidated ==
    /\ [][ (InsertImageStep /\ conn = "open" /\ ~md5_check(ret'.md5)) =>
              ret'.kind = "DatabaseError" /\ images' = images ]_vars
    /\ [](\A i \in 1..Len(images) : md5_check(images[i].md5_checksum))

\* a fingerprint of 32 characters, one of them not hexadecimal, has just been
\* refused by a store that holds rows
C20_Witness ==
    /\ ret.op = "insert_image" /\ ret.kind = "DatabaseError"
    /\ Len(ret.md5) = Md5Len /\ ~md5_check(ret.md5)
    /\ conn = "open"
    /\ Len(images) > 0


LinkStep == ret'.op = "link_painting_to_image" /\ LinkPaintingToImage

RatingStep == ret'.op = "insert_rating" /\ InsertRating

LinkReferencesExist(links, pts, imgs) ==
    \A k \in 1..Len(links) :
        /\ links[k].painting_id \in PaintingIds(pts)
        /\ links[k].image_id \in ImageIds(imgs)

(***************************************************************************)
(* C18: link_painting_to_image on an open store with a painting id or an   *)
(* image id that names no row fails with DatabaseError and leaves          *)
(* painting_images as it was; when it succeeds it appends exactly the row  *)
(* (painting_id, image_id), which is then the last row of painting_images; *)
(* and in every reachable state each row of painting_images names an       *)
(* existing painting and an existing image.                                *)
(***************************************************************************)
C18_ReferentialIntegrity ==
    /\ [][(LinkStep /\ conn = "open") =>
            LET painting_id == args'[1]
                image_id == args'[2]
                known == /\ painting_id \in PaintingIds(paintings)
                         /\ image_id \in ImageIds(images)
            IN  /\ ~known => /\ ret'.kind = "DatabaseError"
                             /\ painting_images' = painting_images
                /\ ret'.kind \in {"ok", "DatabaseError"}
                /\ ret'.kind = "ok" =>
                       /\ known
                       /\ painting_images' =
                              Append(painting_images, [painting_id |-> painting_id,
                                                       image_id |-> image_id])
                /\ ret'.kind # "ok" => painting_images' = painting_images]_vars
    /\ [] LinkReferencesExist(painting_images, paintings, images)

\* a link of two existing rows is stored, after a link with an unknown id had failed
C18_Witness ==
    /\ ret.op = "link_painting_to_image"
    /\ ret.kind = "ok"
    /\ Len(painting_images) = 1
    /\ painting_images[1] = [painting_id |-> args[1], image_id |-> args[2]]
    /\ Len(images) = 1
    /\ Len(paintings) = 1

(***************************************************************************)
(* C19: insert_rating on an open store with a score outside 1..5 fails     *)
(* with DatabaseError and leaves ratings as it was; when it succeeds the   *)
(* row it appends carries the score that was passed, unchanged, and the    *)
(* ids that were passed, which name existing rows; and in every reachable  *)
(* state each row of ratings has a score in 1..5.                          *)
(***************************************************************************)
C19_RatingBound ==
    /\ [][(RatingStep /\ conn = "open") =>
            LET painting_id == args'[1]
                image_id == args'[2]
                score == args'[3]
            IN  /\ score \notin 1..5 => /\ ret'.kind = "DatabaseError"
                                        /\ ratings' = ratings
                /\ ret'.kind \in {"ok", "DatabaseError"}
                /\ ret'.kind = "ok" =>
                       /\ Len(ratings') = Len(ratings) + 1
                       /\ SubSeq(ratings', 1, Len(ratings)) = ratings
                       /\ ratings'[Len(ratings')].score = score
                       /\ ratings'[Len(ratings')].painting_id = painting_id
                       /\ ratings'[Len(ratings')].image_id = image_id
                       /\ painting_id \in PaintingIds(paintings)
                       /\ image_id \in ImageIds(images)
                /\ ret'.kind # "ok" => ratings' = ratings]_vars
    /\ [] (\A k \in 1..Len(ratings) : ratings[k].score \in 1..5)

\* both a score of 1 and a score of 5 are stored, for existing rows
C19_Witness ==
    /\ ret.op = "insert_rating"
    /\ ret.kind = "ok"
    /\ Len(ratings) = 2
    /\ {ratings[1].score, ratings[2].score} = {1, 5}
    /\ args[3] = ratings[2].score


(***************************************************************************)
(* C21: no step of the store API removes a record: every image id and      *)
(* every painting id present before a step is present after it, at the     *)
(* same position, painting_images and ratings only get rows appended, and  *)
(* a row of ratings, once stored, is never changed.                        *)
(***************************************************************************)
C21_NoRecordRemoved ==
    [][/\ Len(images) <= Len(images')
       /\ \A i \in 1..Len(images) : images'[i].image_id = images[i].image_id
       /\ Len(paintings) <= Len(paintings')
       /\ \A i \in 1..Len(paintings) : paintings'[i].painting_id = paintings[i].painting_id
       /\ IsPrefix(painting_images, painting_images')
       /\ IsPrefix(ratings, ratings')]_vars

\* an image, a painting and a rating of them are stored, and an update of the
\* image has just succeeded
C21_Witness ==
    /\ Len(images) = 1
    /\ Len(paintings) = 1
    /\ Len(ratings) = 1
    /\ ret.op = "update_image"
    /\ ret.kind = "ok"
    /\ images[1].cropped = 1


DecimalDigits == Chars("0123456789")

NativeForm(v) ==
    /\ Len(v) = 19
    /\ \A i \in 1..Len(v) :
           IF i \in {5, 8, 14, 17} THEN CharAt(v, i) = ":"
           ELSE IF i = 11 THEN CharAt(v, i) = " "
           ELSE CharAt(v, i) \in DecimalDigits

\* the tag is there, readable and in its native form
TagUsable(tag) == tag.kind = "tag" /\ NativeForm(tag.value)

CloseStep == ret'.op = "close_connection" /\ CloseConnection

C25_ParentMustExist ==
    /\ [][(InsertImageStep /\ conn = "open") =>
            \A p \in 1..3 :
                (/\ images' # images
                 /\ images'[Len(images')].parent_image_id = {p})
                    => p \in ImageIds(images)]_vars
    /\ [](\A i \in 1..Len(images) :
              images[i].parent_image_id \subseteq ImageIds(images))


RowsAddedByRun == {i \in 1..Len(images) : images[i].md5_checksum \notin md5_0}

FailedWriteStep ==
    /\ ret'.op \in {"insert_image", "link_painting_to_image", "insert_rating"}
    /\ ret'.kind \in {"DuplicateImageError", "DatabaseError"}
    /\ InsertImageCommit \/ LinkPaintingToImageCommit \/ InsertRatingCommit

(***************************************************************************)
(* C28: a call of insert_image, insert_rating or link_painting_to_image    *)
(* that fails with DuplicateImageError or DatabaseError leaves every table *)
(* with exactly the rows it held before the call.                          *)
(***************************************************************************)
C28_FailedWriteChangesNothing ==
    [][FailedWriteStep => UNCHANGED StoreRows]_vars


(***************************************************************************)
(* C29: when two writers are in insert_image calls for the same            *)
(* fingerprint, however their lookups and inserts interleave, a call that  *)
(* ends while the other has succeeded, or that finds the fingerprint       *)
(* stored, fails with DuplicateImageError (a failure of the disk aside);   *)
(* two calls for a new fingerprint never both succeed; and images never    *)
(* holds two rows with one fingerprint.                                    *)
(***************************************************************************)
C29_OneWriterWins ==
    /\ \A i, j \in 1..Len(images) :
           i # j => images[i].md5_checksum # images[j].md5_checksum
    /\ \A v, w \in Writers :
           (/\ v # w
            /\ writers[v].pc = "done" /\ writers[w].pc = "done"
            /\ writers[v].md5 = writers[w].md5
            /\ writers[v].kind = "ok")
               => \/ writers[w].kind = "DuplicateImageError"
                  \/ writers[w].error = "disk I/O error"

(***************************************************************************)
(* PaintingManager: the metadata file and its rolling backups,             *)
(* painting_manager.py lines 52-77.                                        *)
(***************************************************************************)
MaxSecond == 10        \* last second the local clock shows
MaxElapsed == 1        \* seconds between two readings of the clock
MaxEdits == 1          \* changes made to the DataFrame
MaxSetBack == 1        \* times the local clock is set back

KeepBackups == 10      \* `if len(backups) > 10` and `backups[10:]`

Seconds == 0..MaxSecond

\* strftime on the seconds field, "%S": two decimal digits, zero-padded (the
\* fields before it are those of one minute, the same in every name)
strftime(t) ==
    CharAt("0123456789", ((t \div 10) % 10) + 1) \o CharAt("0123456789", (t % 10) + 1)

\* f"metadata_{timestamp}.csv"
backup_name(t) == "metadata_" \o strftime(t) \o ".csv"

BackupNames == [t \in Seconds |-> backup_name(t)]

\* the characters of a backup's name, in the order of their code points
CodePoints == "./0123456789_acdemstv"

ord(c) == CHOOSE i \in 1..Len(CodePoints) : CharAt(CodePoints, i) = c

\* a < b for str: by the first character that differs, a prefix first
RECURSIVE str_less(_, _)
str_less(a, b) ==
    IF Len(b) = 0 THEN FALSE
    ELSE IF Len(a) = 0 THEN TRUE
    ELSE IF CharAt(a, 1) # CharAt(b, 1) THEN ord(CharAt(a, 1)) < ord(CharAt(b, 1))
    ELSE str_less(SubSeq(a, 2, Len(a)), SubSeq(b, 2, Len(b)))

NameLess ==
    [a \in {BackupNames[t] : t \in Seconds} |->
        [b \in {BackupNames[t] : t \in Seconds} |-> str_less(a, b)]]

\* sorted(names, reverse=True): the greatest name first
RECURSIVE sorted_reverse(_)
sorted_reverse(names) ==
    IF names = {} THEN <<>>
    ELSE LET top == CHOOSE a \in names : \A b \in names : ~NameLess[a][b]
         IN  <<top>> \o sorted_reverse(names \ {top})

\* df.to_csv(path): the file at path, new or not, holds the DataFrame
to_csv(files, name, df) ==
    {f \in files : f.name # name} \cup {[name |-> name, df |-> df]}

\* lines 73-76: the files from the eleventh on, greatest name first, are
\* removed
remove_old(files) ==
    LET backups == sorted_reverse({f.name : f \in files})
        old == IF Len(backups) > KeepBackups
               THEN {backups[i] : i \in (KeepBackups + 1)..Len(backups)}
               ELSE {}
    IN  {f \in files : f.name \notin old}

\* save_metadata, lines 52-57
save_metadata(m) == [m EXCEPT !.metadata_file = {m.df}]

\* save_metadata_with_backup, lines 59-77, when datetime.now() is the second
\* now
save_metadata_with_backup(m, now) ==
    LET saved == save_metadata(m)
        written == to_csv(saved.backups, BackupNames[now], saved.df)
    IN  [saved EXCEPT !.backups = remove_old(written), !.now = now]

\* what no method of PaintingManager touches
managerFrame ==
    <<images, conn, ret, thumbs, pc, paths, ext_arg, extensions, pi, walking, walk,
      stats, visited, md5_0, outcome, ingest_conn, db, schema_path, tables,
      paintings, painting_images, ratings, kwargs, args, writers>>

\* self.df = painting.update_metadata(self.df): the DataFrame changes
UpdateMetadata ==
    /\ pm.df < MaxEdits
    /\ pm' = [pm EXCEPT !.df = @ + 1]
    /\ UNCHANGED managerFrame

\* the local clock is set back: the end of daylight saving time, a
\* correction of a clock that ran fast (datetime.now() is naive local time)
ClockSetBack ==
    /\ pm.set_back < MaxSetBack
    /\ \E t \in Seconds :
           /\ t < pm.now
           /\ pm' = [pm EXCEPT !.now = t, !.set_back = @ + 1]
    /\ UNCHANGED managerFrame

\* a call, elapsed seconds after the clock was last read or set
SaveMetadataWithBackup ==
    /\ \E elapsed \in 0..MaxElapsed :
           /\ pm.now + elapsed <= MaxSecond
           /\ pm' = save_metadata_with_backup(pm, pm.now + elapsed)
    /\ UNCHANGED managerFrame

NextBackups ==
    \/ UpdateMetadata
    \/ ClockSetBack
    \/ SaveMetadataWithBackup

SpecBackups == Init /\ [][NextBackups]_vars

\* the second in a backup's name
StampOf(name) == CHOOSE t \in Seconds : BackupNames[t] = name

(***************************************************************************)
(* C30: after every call of save_metadata_with_backup, backup_dir holds at *)
(* most 10 backups, the backups it holds are the most recent by timestamp  *)
(* of those it held before and the one of this call, and the backup named  *)
(* for this call is among them and holds the DataFrame just saved.         *)
(***************************************************************************)
C30_RollingBackups ==
    [][SaveMetadataWithBackup =>
          LET before == {StampOf(f.name) : f \in pm.backups} \cup {pm'.now}
              after == {StampOf(f.name) : f \in pm'.backups}
          IN  /\ Cardinality(pm'.backups) <= KeepBackups
              /\ after \subseteq before
              /\ \A t \in after : \A u \in before \ after : u < t
              /\ [name |-> BackupNames[pm'.now], df |-> pm.df] \in pm'.backups
              /\ pm'.metadata_file = {pm.df}]_vars

====
